---- MODULE Spec2Model ----
(***************************************************************************)
(* PowerPilot AI: the forecasting pipeline of the backend.                 *)
(*                                                                         *)
(* Time is counted in whole hours since Monday 2024-01-01 00:00 UTC.       *)
(* Energy values are fixed-point numbers counted in ticks of 0.0001 kWh:   *)
(* Milli ticks are 0.001 kWh, the resolution round(x, 3) rounds to, and    *)
(* KWh ticks are 1.0 kWh.  Float arithmetic of the source is modelled by   *)
(* integer arithmetic on ticks, divisions rounding toward minus infinity.  *)
(***************************************************************************)
EXTENDS Integers, Sequences, FiniteSets, TLC


\* ------------------------------------------------------------------ units
Milli == 10
KWh == 1000 * Milli

\* ---------------------------------------------------------------- bounds
MaxUploads == 2
MaxRequests == 1

\* ------------------------------------------------------- sequence helpers
Last(s) == s[Len(s)]

\* s[-k:] of Python for 1 <= k
TailOf(s, k) == IF Len(s) <= k THEN s ELSE SubSeq(s, Len(s) - k + 1, Len(s))

\* the sum of s[lo..hi], found by halving
RECURSIVE SumIn(_, _, _)
SumIn(s, lo, hi) ==
    IF lo > hi THEN 0
    ELSE IF lo = hi THEN s[lo]
    ELSE LET mid == (lo + hi) \div 2
         IN  SumIn(s, lo, mid) + SumIn(s, mid + 1, hi)

SumSeq(s) == SumIn(s, 1, Len(s))

Max2(a, b) == IF a >= b THEN a ELSE b
Min2(a, b) == IF a <= b THEN a ELSE b

\* the greatest of s[lo..hi], lo <= hi, found by halving
RECURSIVE MaxIn(_, _, _)
MaxIn(s, lo, hi) ==
    IF lo = hi THEN s[lo]
    ELSE LET mid == (lo + hi) \div 2
         IN  Max2(MaxIn(s, lo, mid), MaxIn(s, mid + 1, hi))

\* max(s) of a non-empty sequence
MaxSeq(s) == MaxIn(s, 1, Len(s))

\* floor division for any sign of a, b > 0
FloorDiv(a, b) == a \div b

\* the least r >= 0 with r * r >= n (n >= 0), found by bisection on lo..hi
RECURSIVE CeilSqrtIn(_, _, _)
CeilSqrtIn(n, lo, hi) ==
    IF lo >= hi THEN lo
    ELSE LET mid == (lo + hi) \div 2
         IN  IF mid * mid >= n THEN CeilSqrtIn(n, lo, mid)
             ELSE CeilSqrtIn(n, mid + 1, hi)

CeilSqrt(n) == CeilSqrtIn(n, 0, 46340)

\* --------------------------------------------------------------- calendar
\* datetime.hour
HourOf(t) == t % 24

\* datetime.weekday(): 0 = Monday ... 6 = Sunday; hour 0 is a Monday
WeekdayOf(t) == (t \div 24) % 7

\* cumulative days before each month's end, 2024 (leap) and later years
LeapEnds == <<31, 60, 91, 121, 152, 182, 213, 244, 274, 305, 335, 366>>
YearEnds == <<31, 59, 90, 120, 151, 181, 212, 243, 273, 304, 334, 365>>

MonthIn(ends, d) == CHOOSE m \in 1..12 :
    /\ d < ends[m]
    /\ \A k \in 1..(m - 1) : d >= ends[k]

\* datetime.month, for 2024-01-01 .. 2027-12-31
MonthOf(t) ==
    LET d == t \div 24
    IN  IF d < 366 THEN MonthIn(LeapEnds, d)
        ELSE MonthIn(YearEnds, (d - 366) % 365)

\* -------------------------------------------------------------- statistics
\* float(np.mean(xs)) in ticks
Mean(xs) == FloorDiv(SumSeq(xs), Len(xs))

\* the sum of the squared deviations of xs from m
SumSqDev(xs, m) == SumSeq([i \in 1..Len(xs) |-> (xs[i] - m) * (xs[i] - m)])

AllEqual(xs) == \A i \in 1..Len(xs) : xs[i] = xs[1]

\* float(np.std(xs)): population standard deviation (ddof = 0) in ticks,
\* 0 exactly when all values are equal
Abs(x) == IF x < 0 THEN 0 - x ELSE x

\* The unit in which deviations from m are squared: 1 tick as long as the
\* sum of Len(xs) squares stays within the integer range, coarser above.
StdUnit(xs, m) ==
    MaxSeq([i \in 1..Len(xs) |-> Abs(xs[i] - m)])
        \div (CeilSqrt(2147483647 \div Len(xs)) - 1) + 1

PopStd(xs) ==
    IF AllEqual(xs) THEN 0
    ELSE LET m == Mean(xs)
             u == StdUnit(xs, m)
             scaled == [i \in 1..Len(xs) |-> Abs(xs[i] - m) \div u]
         IN  Max2(1, u * CeilSqrt(FloorDiv(SumSqDev(scaled, 0), Len(xs))))

\* ------------------------------------------------------------ environment
\* An Optional value is a sequence: <<>> is None / NaN / NaT, <<v>> is v.
Some(v) == <<v>>
Missing == <<>>

\* a worker thread of the API server runs one request at a time
Workers == {1, 2}

Horizons == {"next_hour", "next_day", "next_7_days"}

\* The pickled regressors that can sit at PREDICTION_MODEL_PATH.  kind names
\* the function predict() computes, has_score whether the object has a
\* "score" attribute, r2 the R^2 (in percent) measured when it was trained.
Predictors == {
    [kind |-> "echo", has_score |-> TRUE, r2 |-> 81],
    [kind |-> "swing", has_score |-> FALSE, r2 |-> 67] }

\* standard-normal samples (in tenths) that the process-wide numpy generator
\* hands out in turn; the generator's state is the position in this cycle
NoiseTape == <<-25, 13, 0>>

\* Uploaded CSV files.  filename is the name split before its extension,
\* columns are the normalised header names, every row holds one cell per
\* column; a cell that does not parse (NaT, NaN) is Missing.
HourlyRows(start, n) ==
    [i \in 1..n |-> <<Some(start + i - 1), Some(100 + 20 * ((i * 7) % 5) + i)>>]

CsvDay == [filename |-> <<"day", ".csv">>, parses |-> TRUE,
           columns |-> <<"timestamp", "consumption_kwh">>,
           rows |-> HourlyRows(0, 26)]

CsvDirty == [filename |-> <<"dirty", ".csv">>, parses |-> TRUE,
             columns |-> <<"usage", "date">>,
             rows |-> << <<Some(210), Some(50)>>, <<Some(100), Missing>>,
                         <<Some(130), Some(49)>>, <<Some(999), Some(50)>>,
                         <<Missing, Some(60)>>, <<Some(-50), Some(61)>> >>]

CsvNoColumn == [filename |-> <<"nocol", ".csv">>, parses |-> TRUE,
                columns |-> <<"when", "kwh">>,
                rows |-> << <<Some(70), Some(100)>> >>]

CsvGarbage == [filename |-> <<"garbage", ".csv">>, parses |-> FALSE,
               columns |-> <<>>, rows |-> <<>>]

CsvText == [filename |-> <<"day", ".txt">>, parses |-> TRUE,
            columns |-> <<"timestamp", "consumption_kwh">>,
            rows |-> HourlyRows(0, 2)]

Files == {CsvDay, CsvDirty, CsvNoColumn, CsvGarbage, CsvText}

\* n hourly rows from start that all hold v, but for the row at position
\* spike_at (0 for none), which holds spike
SeriesRows(start, n, v, spike_at, spike) ==
    [i \in 1..n |-> <<Some(start + i - 1),
                      Some(IF i = spike_at THEN spike ELSE v)>>]

\* 100 readings of 2.0 kWh
CsvConstant == [filename |-> <<"constant", ".csv">>, parses |-> TRUE,
                columns |-> <<"timestamp", "consumption_kwh">>,
                rows |-> SeriesRows(200, 100, 2 * KWh, 0, 0)]

\* 3 readings of 0.1 kWh
CsvTenths == [filename |-> <<"tenths", ".csv">>, parses |-> TRUE,
              columns |-> <<"timestamp", "consumption_kwh">>,
              rows |-> SeriesRows(600, 3, KWh \div 10, 0, 0)]

\* 100 readings of 2.0 kWh but for one of 50.0 kWh
CsvSpike == [filename |-> <<"spike", ".csv">>, parses |-> TRUE,
             columns |-> <<"timestamp", "consumption_kwh">>,
             rows |-> SeriesRows(400, 100, 2 * KWh, 37, 50 * KWh)]

\* 10 readings: nine of 0.0 kWh and one, the last, of 0.3 kWh
CsvTen == [filename |-> <<"ten", ".csv">>, parses |-> TRUE,
           columns |-> <<"timestamp", "consumption_kwh">>,
           rows |-> SeriesRows(800, 10, 0, 10, 300 * Milli)]

AnomalyFiles == {CsvConstant, CsvTenths, CsvSpike, CsvTen, CsvDay, CsvDirty,
                 CsvText}

\* the rows of a file that holds the readings <<hour, ticks>> of rs
ReadingRows(rs) == [i \in 1..Len(rs) |-> <<Some(rs[i][1]), Some(rs[i][2])>>]

\* three days whose sums are 100, 300 and 110 ticks
CsvHump == [filename |-> <<"hump", ".csv">>, parses |-> TRUE,
            columns |-> <<"timestamp", "consumption_kwh">>,
            rows |-> ReadingRows(<< <<8, 100>>, <<32, 300>>, <<68, 110>> >>)]

\* five days of 200 ticks each, read at the hours 5, 3, 7, 3 and 4
CsvSteady == [filename |-> <<"steady", ".csv">>, parses |-> TRUE,
              columns |-> <<"timestamp", "consumption_kwh">>,
              rows |-> ReadingRows(<< <<5, 200>>, <<27, 200>>, <<55, 200>>,
                                      <<75, 200>>, <<100, 200>> >>)]

\* four days whose second half is 5% above the first
CsvEdge == [filename |-> <<"edge", ".csv">>, parses |-> TRUE,
            columns |-> <<"timestamp", "consumption_kwh">>,
            rows |-> ReadingRows(<< <<10, 100>>, <<34, 100>>, <<58, 105>>,
                                    <<82, 105>> >>)]

\* a Saturday of high usage and a reading in February
CsvWeekend == [filename |-> <<"weekend", ".csv">>, parses |-> TRUE,
               columns |-> <<"timestamp", "consumption_kwh">>,
               rows |-> ReadingRows(<< <<132, 900>>, <<753, 50>> >>)]

\* a Friday of 100 ticks and a Saturday of 110: a weekend 10% higher
CsvMargin == [filename |-> <<"margin", ".csv">>, parses |-> TRUE,
              columns |-> <<"timestamp", "consumption_kwh">>,
              rows |-> ReadingRows(<< <<100, 100>>, <<130, 110>> >>)]

\* one reading, on a Sunday
CsvSunday == [filename |-> <<"sunday", ".csv">>, parses |-> TRUE,
              columns |-> <<"timestamp", "consumption_kwh">>,
              rows |-> ReadingRows(<< <<150, 80>> >>)]

AnalysisFiles == {CsvDay, CsvDirty, CsvHump, CsvSteady, CsvEdge, CsvWeekend,
                  CsvMargin, CsvSunday, CsvNoColumn, CsvGarbage, CsvText}

\* readings of datetime.utcnow(), in hours
Clock == {30, 5000}

\* what PREDICTION_MODEL_PATH can hold when the server runs
ModelFiles == {Missing} \cup {Some(m) : m \in Predictors}

\* ------------------------------------------------------------------ state
VARIABLES
    energy_data,      \* table energy_data, rows in id order
    prediction_data,  \* table prediction_data, rows in id order
    model_file,       \* the pickle at PREDICTION_MODEL_PATH, Missing if absent
    rng,              \* state of the process-wide numpy random generator
    now,              \* the last reading of the UTC clock, in hours
    svc,              \* per worker: the request it serves and its response
    uploads,          \* upload-csv requests served
    requests,         \* predict requests started
    data_csv,         \* the rows of the CSV at DATA_PATH (ml/train.py)
    training,         \* (X, y) of the last training run, Missing before it
    anomaly_data,     \* table anomaly_data, rows in id order
    anomaly_model_file \* the pickle at ANOMALY_MODEL_PATH, Missing if absent

vars == <<energy_data, prediction_data, model_file, rng, now, svc, uploads,
          requests, data_csv, training, anomaly_data, anomaly_model_file>>

\* ------------------------------------------------------- energy repository
\* EnergyRepository.get_all: ORDER BY timestamp LIMIT limit; rows of equal
\* timestamp come out in id order (the index on timestamp)
get_all(limit) ==
    LET ordered == SortSeq(energy_data, LAMBDA a, b : a.timestamp < b.timestamp)
    IN  IF Len(ordered) <= limit THEN ordered ELSE SubSeq(ordered, 1, limit)

\* ----------------------------------------------------------- process_csv
TimestampNames == <<"timestamp", "datetime", "date", "time">>
ConsumptionNames == <<"consumption_kwh", "consumption", "kwh", "energy", "usage">>

Range(s) == {s[i] : i \in 1..Len(s)}

\* the first candidate that is a column of the file, as a column position;
\* 0 when no candidate is a column
RECURSIVE FindColumn(_, _)
FindColumn(candidates, columns) ==
    IF candidates = <<>> THEN 0
    ELSE IF candidates[1] \in Range(columns)
         THEN CHOOSE c \in 1..Len(columns) : columns[c] = candidates[1]
         ELSE FindColumn(Tail(candidates), columns)

\* df.dropna(subset=["timestamp"])
DropNaT(df) == SelectSeq(df, LAMBDA r : r.timestamp # Missing)

\* df.drop_duplicates(subset=["timestamp"]): the first row of each timestamp
DropDuplicates(df) ==
    LET numbered == [i \in 1..Len(df) |-> [index |-> i, row |-> df[i]]]
        first == SelectSeq(numbered, LAMBDA r :
                    \A j \in 1..(r.index - 1) : df[j].timestamp # r.row.timestamp)
    IN  [i \in 1..Len(first) |-> first[i].row]

\* Series.median() of the cells that hold a number; Missing when none does
Median(df) ==
    LET nums == SelectSeq(df, LAMBDA r : r.consumption_kwh # Missing)
        srt == SortSeq([i \in 1..Len(nums) |-> nums[i].consumption_kwh[1]],
                       LAMBDA a, b : a < b)
        n == Len(srt)
    IN  IF n = 0 THEN Missing
        ELSE IF n % 2 = 1 THEN Some(srt[(n + 1) \div 2])
        ELSE Some(FloorDiv(srt[n \div 2] + srt[n \div 2 + 1], 2))

\* fillna(median)
FillNa(df) ==
    LET med == Median(df)
    IN  [i \in 1..Len(df) |->
            IF df[i].consumption_kwh = Missing
            THEN [df[i] EXCEPT !.consumption_kwh = med]
            ELSE df[i]]

\* df[df["consumption_kwh"] >= 0]: NaN >= 0 is false
DropNegative(df) ==
    SelectSeq(df, LAMBDA r : r.consumption_kwh # Missing /\ r.consumption_kwh[1] >= 0)

\* one EnergyDataCreate per cleaned row, with its calendar columns
EnergyRecord(r) ==
    LET t == r.timestamp[1]
    IN  [timestamp |-> t, consumption_kwh |-> r.consumption_kwh[1],
         hour |-> HourOf(t), day |-> WeekdayOf(t), month |-> MonthOf(t),
         is_weekend |-> WeekdayOf(t) \in {5, 6}]

\* the records process_csv builds from a file that has both columns
CleanRecords(file, ts_col, kw_col) ==
    LET df == [i \in 1..Len(file.rows) |->
                  [timestamp |-> file.rows[i][ts_col],
                   consumption_kwh |-> file.rows[i][kw_col]]]
        kept == DropNegative(FillNa(DropDuplicates(DropNaT(df))))
        srt == SortSeq(kept, LAMBDA a, b : a.timestamp[1] < b.timestamp[1])
    IN  [i \in 1..Len(srt) |-> EnergyRecord(srt[i])]

\* EnergyService.process_csv: <<"ok", records>> or <<"ValueError", <<>>>>
process_csv(file) ==
    LET ts_col == FindColumn(TimestampNames, file.columns)
        kw_col == FindColumn(ConsumptionNames, file.columns)
    IN  IF ~file.parses \/ ts_col = 0 \/ kw_col = 0 THEN <<"ValueError", <<>>>>
        ELSE <<"ok", CleanRecords(file, ts_col, kw_col)>>

\* ------------------------------------------------------ prediction service
\* PredictionService._load_model: the pickle, if the file exists
_load_model == model_file

\* _build_features with the two lag fields in the other order
build_features_swapped(dt, rolling_mean, rolling_std, lag_1h, lag_24h) ==
    <<HourOf(dt), WeekdayOf(dt), MonthOf(dt), IF WeekdayOf(dt) >= 5 THEN 1 ELSE 0,
      rolling_mean, rolling_std, lag_24h, lag_1h>>

\* PredictionService._build_features
_build_features(dt, rolling_mean, rolling_std, lag_1h, lag_24h) ==
    LET hour == HourOf(dt)
        day == WeekdayOf(dt)
        month == MonthOf(dt)
        is_weekend == IF day >= 5 THEN 1 ELSE 0
    IN  <<hour, day, month, is_weekend, rolling_mean, rolling_std, lag_1h, lag_24h>>

\* model.predict(features)[0]: what each pickled regressor answers, in ticks
ModelPredict(model, features) ==
    CASE model.kind = "echo" -> features[7] + 3
      [] model.kind = "swing" -> features[8] + 25 * (features[1] - 12) - 60 * features[4]

\* 1000 * (1.0 + 0.3 * sin((hour - 6) * pi / 12)), hour = 0 .. 23
HourFactor == <<700, 710, 740, 788, 850, 922, 1000, 1078, 1150, 1212, 1260,
                1290, 1300, 1290, 1260, 1212, 1150, 1078, 1000, 922, 850, 788,
                740, 710>>

hour_factor(ts) == HourFactor[HourOf(ts) + 1]

\* 100 * weekend_factor
weekend_factor(ts) == IF WeekdayOf(ts) >= 5 THEN 85 ELSE 100

\* np.random.normal(0, scale) for the generator state g: the sample
normal(g, scale) == FloorDiv(NoiseTape[g + 1] * scale, 10)

\* the generator state after one draw
advance(g) == (g + 1) % Len(NoiseTape)

\* round(x, 3) for x >= 0: to the nearest 0.001, a tie to the even one
Round3(x) ==
    LET q == x \div Milli
        r == x % Milli
    IN  IF 2 * r < Milli THEN q * Milli
        ELSE IF 2 * r > Milli THEN (q + 1) * Milli
        ELSE IF q % 2 = 0 THEN q * Milli ELSE (q + 1) * Milli

\* np.std(xs) or 1.0
StdOrOne(xs) == IF PopStd(xs) = 0 THEN KWh ELSE PopStd(xs)

\* the range taken with its stop included
HoursRange_inclusive(base_ts, start, stop, step) ==
    [k \in 1..((stop - start) \div step + 1) |-> base_ts + start + (k - 1) * step]

\* [base_ts + timedelta(hours=i) for i in range(start, stop, step)]
HoursRange(base_ts, start, stop, step) ==
    [k \in 1..((stop - start + step - 1) \div step) |-> base_ts + start + (k - 1) * step]

\* the horizon steps of predict
Steps(horizon, base_ts) ==
    IF horizon = "next_hour" THEN <<base_ts + 1>>
    ELSE IF horizon = "next_day" THEN HoursRange(base_ts, 1, 25, 1)
    ELSE HoursRange(base_ts, 1, 24 * 7 + 1, 4)

\* a horizon code that knows the three documented names only
HorizonHours_named(horizon) ==
    CASE horizon = "next_hour" -> 1
      [] horizon = "next_day" -> 24
      [] horizon = "next_7_days" -> 168
      [] OTHER -> 0

\* prediction_horizon of the stored records
HorizonHours(horizon) ==
    IF horizon = "next_hour" THEN 1 ELSE IF horizon = "next_day" THEN 24 ELSE 168

\* values[-24:] if len(values) >= 24 else values
SeedBuffer(values) ==
    IF Len(values) >= 24 THEN SubSeq(values, Len(values) - 24 + 1, Len(values))
    ELSE values

\* append without eviction
Push_no_evict(buffer, v) == Append(buffer, v)

\* append, then pop(0) when longer than 24
Push(buffer, v) ==
    LET appended == Append(buffer, v)
    IN  IF Len(appended) > 24 THEN Tail(appended) ELSE appended

\* a worker that runs no predict call
\* (raw_val is pred_val as the model or the fallback computes it, before the
\* next line clamps it; noises are the samples np.random.normal has returned
\* to the call so far)
Idle == [pc |-> "idle", handler |-> "", horizon |-> "", model |-> Missing, values |-> <<>>,
         base_ts |-> 0, rolling_mean |-> 0, rolling_std |-> 0, steps |-> <<>>,
         i |-> 0, recent_values |-> <<>>, lag_24_buffer |-> <<>>,
         lag_1h |-> 0, lag_24h |-> 0, raw_val |-> 0, pred_val |-> 0,
         noises |-> <<>>, predictions |-> <<>>, response |-> Missing]

\* a worker that has returned response
Returned(handler, response) ==
    [Idle EXCEPT !.pc = "returned", !.handler = handler,
                 !.response = Some(response)]

PredictionResponse(horizon, predictions, model_accuracy) ==
    [horizon |-> horizon, predictions |-> predictions,
     model_accuracy |-> model_accuracy]

\* an upload that reports the rows it has read, not the records it has saved
upload_csv_rows_read(w, file) ==
    /\ svc[w].pc \in {"idle", "returned"}
    /\ uploads < MaxUploads
    /\ uploads' = uploads + 1
    /\ IF Last(file.filename) # ".csv"
       THEN /\ svc' = [svc EXCEPT ![w] = Returned("upload_csv", [status |-> 400, records_saved |-> 0])]
            /\ UNCHANGED energy_data
       ELSE LET res == process_csv(file)
            IN  IF res[1] = "ValueError"
                THEN /\ svc' = [svc EXCEPT ![w] =
                            Returned("upload_csv", [status |-> 422, records_saved |-> 0])]
                     /\ UNCHANGED energy_data
                ELSE /\ energy_data' = energy_data \o res[2]
                     /\ svc' = [svc EXCEPT ![w] =
                            Returned("upload_csv", [status |-> 200, records_saved |-> Len(file.rows)])]
    /\ UNCHANGED <<anomaly_data, anomaly_model_file, data_csv, training, prediction_data, model_file, rng, now, requests>>

\* POST /upload-csv, served by worker w
upload_csv(w, file) ==
    /\ svc[w].pc \in {"idle", "returned"}
    /\ uploads < MaxUploads
    /\ uploads' = uploads + 1
    /\ IF Last(file.filename) # ".csv"
       THEN /\ svc' = [svc EXCEPT ![w] = Returned("upload_csv", [status |-> 400, records_saved |-> 0])]
            /\ UNCHANGED energy_data
       ELSE LET res == process_csv(file)
            IN  IF res[1] = "ValueError"
                THEN /\ svc' = [svc EXCEPT ![w] =
                            Returned("upload_csv", [status |-> 422, records_saved |-> 0])]
                     /\ UNCHANGED energy_data
                ELSE /\ energy_data' = energy_data \o res[2]
                     /\ svc' = [svc EXCEPT ![w] =
                            Returned("upload_csv", [status |-> 200, records_saved |-> Len(res[2])])]
    /\ UNCHANGED <<anomaly_data, anomaly_model_file, data_csv, training, prediction_data, model_file, rng, now, requests>>

\* base_ts taken from the history alone
BaseTs_last(last_ts, utcnow) == last_ts

\* an empty-history response that carries the placeholder accuracy
EmptyHistoryResponse_placeholder(horizon) ==
    [horizon |-> horizon, predictions |-> <<>>, model_accuracy |-> Some(92)]

\* base_ts = max(last_ts, now)
BaseTs(last_ts, utcnow) == Max2(last_ts, utcnow)

\* the response of predict on an empty history
EmptyHistoryResponse(horizon) == PredictionResponse(horizon, <<>>, Missing)

\* the state of a predict call on a non-empty history before its loop
SeedState(horizon, model, all_data, utcnow) ==
    LET values == [k \in 1..Len(all_data) |-> all_data[k].consumption_kwh]
        rolling_window == Min2(24, Len(values))
        last_ts == MaxSeq([k \in 1..Len(all_data) |-> all_data[k].timestamp])
        base_ts == BaseTs(last_ts, utcnow)
    IN  [Idle EXCEPT
            !.pc = "loop", !.handler = "predict",
            !.horizon = horizon, !.model = model,
            !.values = values, !.base_ts = base_ts,
            !.rolling_mean = Mean(TailOf(values, rolling_window)),
            !.rolling_std = StdOrOne(TailOf(values, rolling_window)),
            !.steps = Steps(horizon, base_ts),
            !.recent_values = SeedBuffer(values),
            !.lag_24_buffer = SeedBuffer(values)]

\* GET /predict up to the loop: the service is built (the model is loaded),
\* the history is read, and the call returns at once on an empty history
BeginPredict(w, horizon, utcnow) ==
    /\ svc[w].pc \in {"idle", "returned"}
    /\ requests' = requests + 1
    /\ utcnow >= now
    /\ now' = utcnow
    /\ \E model \in {_load_model}, all_data \in {get_all(10000)} :
           IF all_data = <<>>
           THEN svc' = [svc EXCEPT ![w] =
                    Returned("predict", EmptyHistoryResponse(horizon))]
           ELSE svc' = [svc EXCEPT ![w] = SeedState(horizon, model, all_data, utcnow)]
    /\ UNCHANGED <<anomaly_data, anomaly_model_file, data_csv, training, energy_data, prediction_data, model_file, rng, uploads>>

\* the value predicted for step ts, before it is clamped at 0
RawPrediction(s, ts, lag_1h, lag_24h) ==
    IF s.model # Missing
    THEN ModelPredict(s.model[1],
             _build_features(ts, s.rolling_mean, s.rolling_std, lag_1h, lag_24h))
    ELSE FloorDiv(FloorDiv(s.rolling_mean * hour_factor(ts), 1000) * weekend_factor(ts), 100)
         + normal(rng, FloorDiv(s.rolling_std, 10))

\* lag_1h taken from the value as emitted, rounded to 3 decimals
Lag1h_rounded(recent_values, rolling_mean) ==
    IF recent_values # <<>>
    THEN (recent_values[Len(recent_values)] \div Milli) * Milli
    ELSE rolling_mean

\* lag_24h taken from the newest end of the buffer
Lag24h_newest(lag_24_buffer, rolling_mean) ==
    IF Len(lag_24_buffer) >= 24 THEN lag_24_buffer[Len(lag_24_buffer)] ELSE rolling_mean

\* no clamp
Clamp_none(pred_val) == pred_val

\* lag_1h read from a rolling window that the calls share, the window of
\* the first worker
Lag1h_shared(recent_values, rolling_mean) ==
    IF svc[1].recent_values # <<>> THEN Last(svc[1].recent_values)
    ELSE rolling_mean

\* lag_1h of a step
Lag1h(recent_values, rolling_mean) ==
    IF recent_values # <<>> THEN Last(recent_values) ELSE rolling_mean

\* lag_24h of a step
Lag24h(lag_24_buffer, rolling_mean) ==
    IF Len(lag_24_buffer) >= 24 THEN lag_24_buffer[1] ELSE rolling_mean

\* pred_val = max(0.0, pred_val)
Clamp(pred_val) == Max2(0, pred_val)

\* one iteration of the loop over steps
PredictStep(w) ==
    LET s == svc[w]
        ts == s.steps[s.i + 1]
        lag_1h == Lag1h(s.recent_values, s.rolling_mean)
        lag_24h == Lag24h(s.lag_24_buffer, s.rolling_mean)
        raw_val == RawPrediction(s, ts, lag_1h, lag_24h)
        pred_val == Clamp(raw_val)
        recent_values == Push(s.recent_values, pred_val)
    IN  /\ s.pc = "loop"
        /\ s.i < Len(s.steps)
        /\ svc' = [svc EXCEPT ![w] =
              [s EXCEPT
                 !.i = s.i + 1,
                 !.lag_1h = lag_1h, !.lag_24h = lag_24h,
                 !.raw_val = raw_val, !.pred_val = pred_val,
                 !.noises = IF s.model # Missing THEN s.noises
                            ELSE Append(s.noises,
                                     normal(rng, FloorDiv(s.rolling_std, 10))),
                 !.predictions = Append(s.predictions,
                     [timestamp |-> ts, predicted_value |-> Round3(pred_val)]),
                 !.recent_values = recent_values,
                 !.lag_24_buffer = Push(s.lag_24_buffer, pred_val),
                 !.rolling_mean = Mean(recent_values),
                 !.rolling_std = StdOrOne(recent_values),
                 !.pc = IF s.i + 1 = Len(s.steps) THEN "delete" ELSE "loop"]]
        /\ rng' = IF s.model = Missing THEN advance(rng) ELSE rng
        /\ UNCHANGED <<anomaly_data, anomaly_model_file, data_csv, training, energy_data, prediction_data, model_file, now, uploads, requests>>

\* a delete_all that leaves the table as it is
DeleteAll_keep(w) ==
    /\ svc[w].pc = "delete"
    /\ svc' = [svc EXCEPT ![w].pc = "create"]
    /\ UNCHANGED <<anomaly_data, anomaly_model_file, data_csv, training, energy_data, prediction_data, model_file, rng, now, uploads, requests>>

\* pred_repo.delete_all(), committed
DeleteAll(w) ==
    /\ svc[w].pc = "delete"
    /\ prediction_data' = <<>>
    /\ svc' = [svc EXCEPT ![w].pc = "create"]
    /\ UNCHANGED <<anomaly_data, anomaly_model_file, data_csv, training, energy_data, model_file, rng, now, uploads, requests>>

\* the model_accuracy predict reports
Accuracy(model) ==
    IF model # Missing /\ model[1].has_score THEN Some(92) ELSE Missing

\* pred_repo.create_bulk(db_records), committed, and the return
CreateBulk(w) ==
    LET s == svc[w]
        db_records == [k \in 1..Len(s.predictions) |->
            [timestamp |-> s.predictions[k].timestamp,
             predicted_value |-> s.predictions[k].predicted_value,
             prediction_horizon |-> HorizonHours(s.horizon)]]
    IN  /\ s.pc = "create"
        /\ prediction_data' = prediction_data \o db_records
        /\ svc' = [svc EXCEPT ![w] =
              [s EXCEPT !.pc = "returned",
                        !.response = Some(PredictionResponse(s.horizon, s.predictions,
                                                             Accuracy(s.model)))]]
        /\ UNCHANGED <<anomaly_data, anomaly_model_file, data_csv, training, energy_data, model_file, rng, now, uploads, requests>>

\* horizon strings a request can carry: the query parameter is a plain str
RequestHorizons == Horizons \cup {"next_month"}

\* -------------------------------------------------------- anomaly service
\* The pickled detectors that can sit at ANOMALY_MODEL_PATH: predict() is -1
\* for a reading whose consumption exceeds limit, decision_function() is the
\* distance below the limit.
Detectors == {[limit |-> 200], [limit |-> 0]}

AnomalyModelFiles == {Missing} \cup {Some(d) : d \in Detectors}

\* AnomalyService._load_model: the pickle, if the file exists
AnomalyService_load_model == anomaly_model_file

\* z-scores and anomaly scores are carried in thousandths
ZScale == 1000

\* a / b rounded up, for a >= 0 and b > 0
CeilDiv(a, b) == (a + b - 1) \div b

\* a / b rounded to the nearest integer, halves to even, for a >= 0, b > 0
RoundDiv(a, b) ==
    LET q == a \div b
        r == a % b
    IN  IF 2 * r < b THEN q
        ELSE IF 2 * r > b THEN q + 1
        ELSE IF q % 2 = 0 THEN q ELSE q + 1

\* Equal consumption values that are binary fractions (multiples of 1/16
\* kWh) are summed and averaged by float arithmetic without rounding.
Dyadic == 625

\* The rounding error, far below a tick, that the float arithmetic of
\* features[:, 0].mean() and of the z-scores taken from it can carry: none
\* when the readings are all the same binary fraction, else below, at or
\* above the exact value, as the binary expansions of the values decide.
MeanError(xs) ==
    IF AllEqual(xs) /\ \A i \in 1..Len(xs) : xs[i] % Dyadic = 0 THEN {0}
    ELSE {-1, 0, 1}

\* a score the other way round
Score_positive(z) == z

\* a threshold of ten standard deviations
IsAnomalous_ten(z) == z > 10 * ZScale

\* scores = -z_scores
Score(z) == 0 - z

\* is_anomaly = z_scores > 3
IsAnomalous(z) == z > 3 * ZScale

\* z_scores = np.abs((x - mean) / std) with std = x.std() or 1.0, rounded up
\* to thousandths so that the comparison with 3 is exact.  When all readings
\* are equal every deviation is the rounding error err of the mean: a zero
\* error gives std = 0, replaced by 1.0, and z = 0; a non-zero error gives
\* std = |err|, which is not replaced, and z = 1.  When the readings differ,
\* an error above the exact quotient carries a quotient that is a whole
\* number of thousandths, such as 3.0, to the next thousandth
\* (3.0000000000000004 > 3).
ZScores(xs, err) ==
    LET mean == Mean(xs)
        std == StdOrOne(xs)
    IN  [i \in 1..Len(xs) |->
            IF AllEqual(xs) /\ err # 0 THEN ZScale
            ELSE IF err > 0 THEN (Abs(xs[i] - mean) * ZScale) \div std + 1
            ELSE CeilDiv(Abs(xs[i] - mean) * ZScale, std)]

\* the AnomalyDataCreate records of a run over all_data
DetectRecords(model, all_data, err) ==
    LET xs == [i \in 1..Len(all_data) |-> all_data[i].consumption_kwh]
        z_scores == IF model = Missing THEN ZScores(xs, err) ELSE <<>>
    IN  [i \in 1..Len(all_data) |->
            [timestamp |-> all_data[i].timestamp,
             consumption |-> xs[i],
             is_anomaly |-> IF model = Missing THEN IsAnomalous(z_scores[i])
                            ELSE xs[i] > model[1].limit,
             anomaly_score |-> IF model = Missing THEN Score(z_scores[i])
                               ELSE model[1].limit - xs[i]]]

\* the rows among records that are flagged
Flagged(records) == SelectSeq(records, LAMBDA r : r.is_anomaly)

\* a rate as a fraction, not as a percentage
Rate_fraction(count, total) ==
    IF total > 0 THEN RoundDiv(count * 100, total) ELSE 0

\* round(count / total * 100, 2) if total > 0 else 0.0, in hundredths
Rate(count, total) ==
    IF total > 0 THEN RoundDiv(count * 10000, total) ELSE 0

AnomalyListResponse(total_records, total_anomalies, anomaly_rate, anomalies) ==
    [total_records |-> total_records, total_anomalies |-> total_anomalies,
     anomaly_rate |-> anomaly_rate, anomalies |-> anomalies]

\* the rows with their keys: enumerate(records, 1), and the ids of a table
\* filled from empty
WithIds(records) ==
    [i \in 1..Len(records) |->
        [id |-> i, timestamp |-> records[i].timestamp,
         consumption |-> records[i].consumption,
         is_anomaly |-> records[i].is_anomaly,
         anomaly_score |-> records[i].anomaly_score]]

\* AnomalyRepository.get_all: ORDER BY timestamp LIMIT limit
anomaly_get_all(limit) ==
    LET ordered == SortSeq(anomaly_data, LAMBDA a, b : a.timestamp < b.timestamp)
    IN  IF Len(ordered) <= limit THEN ordered ELSE SubSeq(ordered, 1, limit)

\* AnomalyRepository.get_counts: <<total, anomalies>>
get_counts == <<Len(anomaly_data), Len(Flagged(anomaly_data))>>

\* POST /anomalies/detect, served by worker w; err is the rounding error of
\* the mean on the no-model path
detect_and_store(w, err) ==
    /\ svc[w].pc \in {"idle", "returned"}
    /\ \E model \in {AnomalyService_load_model}, all_data \in {get_all(10000)} :
          IF all_data = <<>>
          THEN /\ svc' = [svc EXCEPT ![w] = Returned("detect_and_store",
                              AnomalyListResponse(0, 0, 0, <<>>))]
               /\ UNCHANGED anomaly_data
          ELSE /\ err \in MeanError([i \in 1..Len(all_data) |->
                                        all_data[i].consumption_kwh])
               /\ \E records \in {DetectRecords(model, all_data, err)} :
                     /\ anomaly_data' = WithIds(records)
                     /\ svc' = [svc EXCEPT ![w] = Returned("detect_and_store",
                           AnomalyListResponse(
                               Len(records), Len(Flagged(records)),
                               Rate(Len(Flagged(records)), Len(records)),
                               WithIds(Flagged(records))))]
    /\ UNCHANGED <<energy_data, prediction_data, model_file, rng, now, uploads,
                   requests, data_csv, training, anomaly_model_file>>

\* GET /anomalies, served by worker w
get_stored_anomalies(w) ==
    /\ svc[w].pc \in {"idle", "returned"}
    /\ \E counts \in {get_counts}, all_records \in {anomaly_get_all(1000)} :
          svc' = [svc EXCEPT ![w] = Returned("get_stored_anomalies",
                    AnomalyListResponse(counts[1], counts[2],
                                        Rate(counts[2], counts[1]),
                                        Flagged(all_records)))]
    /\ UNCHANGED <<energy_data, prediction_data, model_file, rng, now, uploads,
                   requests, data_csv, training, anomaly_data,
                   anomaly_model_file>>

\* ------------------------------------------------------- analysis engine
\* A mean of floats is carried as <<sum, count>>, and two means are compared
\* exactly, by cross-multiplication.
MeanOf(rows) ==
    <<SumSeq([i \in 1..Len(rows) |-> rows[i].consumption_kwh]), Len(rows)>>

MeanLess(a, b) == a[1] * b[2] < b[1] * a[2]

\* the calendar day of a timestamp
DateOf(t) == t \div 24

\* df.groupby("hour")["consumption_kwh"].mean(): one entry per hour of day
\* present, in ascending order of the hour
HourlyMeans(df) ==
    LET hours == SelectSeq([k \in 1..24 |-> k - 1],
                           LAMBDA h : \E i \in 1..Len(df) : df[i].hour = h)
    IN  [k \in 1..Len(hours) |->
            [key |-> hours[k],
             mean |-> MeanOf(SelectSeq(df, LAMBDA r : r.hour = hours[k]))]]

\* df.groupby("month")["consumption_kwh"].mean()
MonthlyMeans(df) ==
    LET months == SelectSeq([k \in 1..12 |-> k],
                            LAMBDA m : \E i \in 1..Len(df) : df[i].month = m)
    IN  [k \in 1..Len(months) |->
            [key |-> months[k],
             mean |-> MeanOf(SelectSeq(df, LAMBDA r : r.month = months[k]))]]

\* df.groupby(date)["consumption_kwh"].sum(): the sum of each calendar day
\* present, in ascending order of the date; df is in timestamp order
DailySums(df) ==
    LET numbered == [i \in 1..Len(df) |->
                        [index |-> i, date |-> DateOf(df[i].timestamp)]]
        first == SelectSeq(numbered, LAMBDA r :
                    r.index = 1 \/ DateOf(df[r.index - 1].timestamp) # r.date)
    IN  [k \in 1..Len(first) |->
            MeanOf(SelectSeq(df, LAMBDA r : DateOf(r.timestamp) = first[k].date))[1]]

\* the keys of the n greatest means, equal means in the order of the last key
nlargest_last(series, n) ==
    LET ranked == SortSeq(series, LAMBDA a, b :
                    \/ MeanLess(b.mean, a.mean)
                    \/ ~MeanLess(a.mean, b.mean) /\ a.key > b.key)
    IN  [k \in 1..Min2(n, Len(ranked)) |-> ranked[k].key]

\* Series.nlargest(n).index.tolist(): the keys of the n greatest means, in
\* descending order of the mean, equal means in the order of the index
nlargest(series, n) ==
    LET ranked == SortSeq(series, LAMBDA a, b :
                    \/ MeanLess(b.mean, a.mean)
                    \/ ~MeanLess(a.mean, b.mean) /\ a.key < b.key)
    IN  [k \in 1..Min2(n, Len(ranked)) |-> ranked[k].key]

\* Series.nsmallest(n).index.tolist()
nsmallest(series, n) ==
    LET ranked == SortSeq(series, LAMBDA a, b :
                    \/ MeanLess(a.mean, b.mean)
                    \/ ~MeanLess(b.mean, a.mean) /\ a.key < b.key)
    IN  [k \in 1..Min2(n, Len(ranked)) |-> ranked[k].key]

\* usage figures are reported in hundredths of a kWh
Centi == 10 * Milli

\* a usage figure taken from the rounded daily usage
Usage_of_rounded(total, days, factor) == factor * RoundDiv(total, Centi * days)

\* round(total / days * factor, 2)
Usage(total, days, factor) == RoundDiv(factor * total, Centi * days)

\* a first half of the days that takes the middle day
FirstHalf_ceil(n) == (n + 1) \div 2

\* len(daily_sums) // 2
FirstHalf(n) == n \div 2

\* the trend label of the daily sums
Trend(daily_sums) ==
    LET n == Len(daily_sums)
        half == FirstHalf(n)
        first_half == <<SumSeq(SubSeq(daily_sums, 1, half)), half>>
        second_half == <<SumSeq(SubSeq(daily_sums, half + 1, n)), n - half>>
    IN  IF n < 3 THEN "Insufficient data"
        ELSE IF 100 * second_half[1] * first_half[2]
                    > 105 * first_half[1] * second_half[2] THEN "Increasing"
        ELSE IF 100 * second_half[1] * first_half[2]
                    < 95 * first_half[1] * second_half[2] THEN "Decreasing"
        ELSE "Stable"

RECURSIVE Gcd(_, _)
Gcd(a, b) == IF b = 0 THEN a ELSE Gcd(b, a % b)

\* the least common multiple of the counts of series[1..k]
RECURSIVE CommonCount(_, _)
CommonCount(series, k) ==
    IF k = 0 THEN 1
    ELSE LET l == CommonCount(series, k - 1)
             c == series[k].mean[2]
         IN  (l \div Gcd(l, c)) * c

\* hourly.max() > hourly.mean() * 2, the means brought to a common count
Uneven(hourly) ==
    LET l == CommonCount(hourly, Len(hourly))
        scaled == [k \in 1..Len(hourly) |->
                      hourly[k].mean[1] * (l \div hourly[k].mean[2])]
    IN  MaxSeq(scaled) * Len(hourly) > 2 * SumSeq(scaled)

\* a weekend that is higher by any margin
WeekendHigher_any(df) ==
    LET weekend == SelectSeq(df, LAMBDA r : r.is_weekend)
        weekday == SelectSeq(df, LAMBDA r : ~r.is_weekend)
        avg_weekend == IF weekend # <<>> THEN MeanOf(weekend) ELSE <<0, 1>>
        avg_weekday == IF weekday # <<>> THEN MeanOf(weekday) ELSE <<0, 1>>
    IN  avg_weekend[1] * avg_weekday[2] > avg_weekday[1] * avg_weekend[2]

\* avg_weekend > avg_weekday * 1.1, an average over no rows being 0
WeekendHigher(df) ==
    LET weekend == SelectSeq(df, LAMBDA r : r.is_weekend)
        weekday == SelectSeq(df, LAMBDA r : ~r.is_weekend)
        avg_weekend == IF weekend # <<>> THEN MeanOf(weekend) ELSE <<0, 1>>
        avg_weekday == IF weekday # <<>> THEN MeanOf(weekday) ELSE <<0, 1>>
    IN  10 * avg_weekend[1] * avg_weekday[2] > 11 * avg_weekday[1] * avg_weekend[2]

\* a recommendation: the kind of its text and the values the text carries
Recommendation(kind, arg) == [kind |-> kind, arg |-> arg]

\* EnergyService._generate_recommendations
_generate_recommendations(peak_hours, hourly, df) ==
    (IF peak_hours # <<>> THEN <<Recommendation("peak_hours", peak_hours)>> ELSE <<>>)
    \o (IF WeekendHigher(df) THEN <<Recommendation("weekend", <<>>)>> ELSE <<>>)
    \o (IF Uneven(hourly) THEN <<Recommendation("uneven", <<>>)>> ELSE <<>>)
    \o (IF df # <<>>
        THEN <<Recommendation("peak_month", nlargest(MonthlyMeans(df), 1))>>
        ELSE <<>>)
    \o <<Recommendation("led", <<>>), Recommendation("smart_meter", <<>>)>>

AnalysisResponse(daily, weekly, monthly, yearly, peak, low, trend, recs) ==
    [daily_usage |-> daily, weekly_usage |-> weekly,
     monthly_usage |-> monthly, yearly_usage |-> yearly,
     peak_hours |-> peak, low_usage_hours |-> low,
     trend |-> trend, recommendations |-> recs]

\* an analysis of no data that claims too few days
EmptyAnalysis_insufficient ==
    AnalysisResponse(0, 0, 0, 0, <<>>, <<>>, "Insufficient data",
                     <<Recommendation("upload", <<>>)>>)

\* the analysis of an empty store
EmptyAnalysis ==
    AnalysisResponse(0, 0, 0, 0, <<>>, <<>>, "No data",
                     <<Recommendation("upload", <<>>)>>)

\* the analysis of the readings df, which are in timestamp order
Analysis(df) ==
    LET hourly == HourlyMeans(df)
        total == MeanOf(df)[1]
        daily_sums == DailySums(df)
        days == Max2(Len(daily_sums), 1)
        peak_hours == nlargest(hourly, 3)
    IN  AnalysisResponse(
            Usage(total, days, 1), Usage(total, days, 7),
            Usage(total, days, 30), Usage(total, days, 365),
            peak_hours, nsmallest(hourly, 3), Trend(daily_sums),
            _generate_recommendations(peak_hours, hourly, df))

\* GET /analysis, served by worker w
get_analysis(w) ==
    /\ svc[w].pc \in {"idle", "returned"}
    /\ \E all_data \in {get_all(10000)} :
          svc' = [svc EXCEPT ![w] = Returned("get_analysis",
                    IF all_data = <<>> THEN EmptyAnalysis ELSE Analysis(all_data))]
    /\ UNCHANGED <<energy_data, prediction_data, model_file, rng, now, uploads,
                   requests, data_csv, training, anomaly_data,
                   anomaly_model_file>>

\* the server starts on an empty database
InitServer ==
    /\ energy_data = <<>>
    /\ prediction_data = <<>>
    /\ anomaly_data = <<>>
    /\ rng \in 0..(Len(NoiseTape) - 1)
    /\ now = 0
    /\ svc = [w \in Workers |-> Idle]
    /\ uploads = 0
    /\ requests = 0

Init ==
    /\ InitServer
    /\ model_file \in ModelFiles
    /\ anomaly_model_file = Missing
    /\ data_csv = <<>>
    /\ training = Missing

\* GET /predict served by the workers ws, step by step
ServePredict(ws) ==
    \/ \E w \in ws, horizon \in RequestHorizons, utcnow \in Clock :
          requests < MaxRequests /\ BeginPredict(w, horizon, utcnow)
    \/ \E w \in ws : PredictStep(w)
    \/ \E w \in ws : DeleteAll(w)
    \/ \E w \in ws : CreateBulk(w)

\* the requests the workers ws serve
Serve(ws) ==
    \/ \E w \in ws, file \in Files : upload_csv(w, file)
    \/ ServePredict(ws)

\* requests served one after the other
Next == Serve({1})

Spec == Init /\ [][Next]_vars

\* Predict calls served by the worker threads at the same time, on a store
\* that one upload has filled.  A call that draws noise takes one step, so
\* that the orders in which the calls draw from the generator stay few; the
\* calls arrive within the same hour.
MaxConcurrent == 2

ConcurrentClock == {30}

ConcurrentFiles == {CsvDay, CsvDirty, CsvSunday}

ConcurrentHorizons ==
    IF model_file = Missing THEN {"next_hour"} ELSE {"next_hour", "next_day"}

InitConcurrent ==
    /\ energy_data \in {process_csv(file)[2] : file \in ConcurrentFiles}
    /\ prediction_data = <<>>
    /\ anomaly_data = <<>>
    /\ model_file \in ModelFiles
    /\ rng \in IF model_file = Missing THEN 0..(Len(NoiseTape) - 1) ELSE {0}
    /\ now = 0
    /\ svc = [w \in Workers |-> Idle]
    /\ uploads = 1
    /\ requests = 0
    /\ anomaly_model_file = Missing
    /\ data_csv = <<>>
    /\ training = Missing

NextConcurrent ==
    \/ \E w \in Workers, horizon \in ConcurrentHorizons, utcnow \in ConcurrentClock :
          requests < MaxConcurrent /\ BeginPredict(w, horizon, utcnow)
    \/ \E w \in Workers : PredictStep(w)
    \/ \E w \in Workers : DeleteAll(w)
    \/ \E w \in Workers : CreateBulk(w)

SpecConcurrent == InitConcurrent /\ [][NextConcurrent]_vars

\* Predict calls served one after the other, each completed before the next
\* begins, with uploads in between.
MaxCalls == 2

SequenceFiles == {CsvDirty, CsvSunday}

\* the generator is left alone by calls that have a model
InitSequence ==
    /\ InitServer
    /\ model_file \in ModelFiles
    /\ model_file # Missing => rng = 0
    /\ anomaly_model_file = Missing
    /\ data_csv = <<>>
    /\ training = Missing

NextSequence ==
    \/ \E file \in SequenceFiles : upload_csv(1, file)
    \/ \E horizon \in Horizons, utcnow \in Clock :
          requests < MaxCalls /\ BeginPredict(1, horizon, utcnow)
    \/ PredictStep(1)
    \/ DeleteAll(1)
    \/ CreateBulk(1)

SpecSequence == InitSequence /\ [][NextSequence]_vars

\* The anomaly endpoints, with uploads in between, served one after the
\* other.
InitAnomaly ==
    /\ InitServer
    /\ model_file = Missing
    /\ anomaly_model_file \in AnomalyModelFiles
    /\ data_csv = <<>>
    /\ training = Missing

ServeAnomaly(ws) ==
    \/ \E w \in ws, err \in {-1, 0, 1} : detect_and_store(w, err)
    \/ \E w \in ws : get_stored_anomalies(w)

NextAnomaly ==
    \/ \E file \in AnomalyFiles : upload_csv(1, file)
    \/ ServeAnomaly({1})

SpecAnomaly == InitAnomaly /\ [][NextAnomaly]_vars

\* Detection runs and reads of their results on a store of about a thousand
\* readings: the first worker runs the detections, the second reads the
\* stored results.  The store holds n hourly readings near 2.0 kWh, the one
\* at position spike_at being 50.0 kWh.
ManyRows == 1001

ManyStore(n, spike_at) ==
    [i \in 1..n |->
        EnergyRecord([timestamp |-> Some(i - 1),
                      consumption_kwh |->
                          Some(IF i = spike_at THEN 50 * KWh
                               ELSE 2 * KWh + 100 * (i % 3))])]

InitStored ==
    /\ energy_data \in {ManyStore(n, spike_at) :
                            n \in (ManyRows - 3)..ManyRows,
                            spike_at \in {1, 500, ManyRows - 3, ManyRows}}
    /\ prediction_data = <<>>
    /\ anomaly_data = <<>>
    /\ rng = 0
    /\ now = 0
    /\ svc = [w \in Workers |-> Idle]
    /\ uploads = 1
    /\ requests = 0
    /\ model_file = Missing
    /\ anomaly_model_file \in AnomalyModelFiles
    /\ data_csv = <<>>
    /\ training = Missing

NextStored ==
    \/ \E err \in {-1, 0, 1} : detect_and_store(1, err)
    \/ get_stored_anomalies(2)

SpecStored == InitStored /\ [][NextStored]_vars

\* The analysis endpoint, with uploads in between.
NextAnalysis ==
    \/ \E file \in AnalysisFiles : upload_csv(1, file)
    \/ get_analysis(1)

SpecAnalysis == Init /\ [][NextAnalysis]_vars

\* ------------------------------------------------------------ ml pipeline
\* sample standard deviation (ddof = 1) of a rolling window, NaN filled by 0
SampleStd(xs) ==
    IF Len(xs) = 1 \/ AllEqual(xs) THEN 0
    ELSE Max2(1, CeilSqrt(FloorDiv(SumSqDev(xs, Mean(xs)), Len(xs) - 1)))

\* ml.pipeline.load_csv: the rows that hold a consumption >= 0
load_csv(csv) ==
    LET kept == SelectSeq(csv, LAMBDA r :
                    r.consumption_kwh # Missing /\ r.consumption_kwh[1] >= 0)
    IN  [i \in 1..Len(kept) |-> [timestamp |-> kept[i].timestamp,
                                 consumption_kwh |-> kept[i].consumption_kwh[1]]]

\* a rolling window that leaves the current reading out
RollingWindow_before(y, i) == SubSeq(y, Max2(1, i - 24), Max2(1, i - 1))

\* rolling(window=24, min_periods=1) at position i: the readings up to and
\* including i, at most 24 of them
RollingWindow(y, i) == SubSeq(y, Max2(1, i - 23), i)

\* a shift whose missing positions are filled with the first reading
Shift_backfill(y, k, i) == IF i > k THEN y[i - k] ELSE y[1]

\* shift(k).fillna(mean) at position i
Shift(y, k, i) == IF i > k THEN y[i - k] ELSE Mean(y)

\* ml.pipeline.build_features: <<X, y>>
build_features(frame) ==
    LET df == SortSeq(frame, LAMBDA a, b : a.timestamp < b.timestamp)
        y == [i \in 1..Len(df) |-> df[i].consumption_kwh]
        window(i) == RollingWindow(y, i)
        hour(i) == HourOf(df[i].timestamp)
        day(i) == WeekdayOf(df[i].timestamp)
        month(i) == MonthOf(df[i].timestamp)
        is_weekend(i) == IF day(i) >= 5 THEN 1 ELSE 0
        rolling_mean_24(i) == Mean(window(i))
        rolling_std_24(i) == SampleStd(window(i))
        lag_1h(i) == Shift(y, 1, i)
        lag_24h(i) == Shift(y, 24, i)
        X == [i \in 1..Len(df) |->
                <<hour(i), day(i), month(i), is_weekend(i),
                  rolling_mean_24(i), rolling_std_24(i), lag_1h(i), lag_24h(i)>>]
    IN  <<X, y, [i \in 1..Len(df) |-> df[i].timestamp]>>

\* the vector X the loop of ml/predict.py builds for step ts
cli_features(ts, rolling_mean, rolling_std, lag_1, lag_24) ==
    <<HourOf(ts), WeekdayOf(ts), MonthOf(ts),
      IF WeekdayOf(ts) >= 5 THEN 1 ELSE 0,
      rolling_mean, rolling_std, lag_1, lag_24>>

\* the regressors fitting can produce: a RandomForestRegressor has score()
FittedModels == {m \in Predictors : m.has_score}

\* python ml/train.py: both models are trained and pickled
Train(m) ==
    /\ training = Missing
    /\ LET Xy == build_features(load_csv(data_csv))
       IN  training' = Some([X |-> Xy[1], y |-> Xy[2], timestamp |-> Xy[3]])
    /\ model_file' = Some(m)
    /\ anomaly_model_file' \in {Some(d) : d \in Detectors}
    /\ UNCHANGED <<energy_data, prediction_data, rng, now, svc, uploads,
                   requests, data_csv, anomaly_data>>

\* the data files training runs on: n hourly rows from start, in ascending
\* or descending order of time, or with every fifth consumption cell empty
\* and every seventh negative
DataRow(start, k, shape) ==
    [timestamp |-> start + k - 1,
     consumption_kwh |->
        IF shape = "gaps" /\ k % 5 = 0 THEN Missing
        ELSE IF shape = "gaps" /\ k % 7 = 0 THEN Some(0 - 30)
        ELSE Some(100 + 20 * ((k * 7) % 5) + k)]

DataFile(start, n, shape) ==
    [i \in 1..n |-> DataRow(start, IF shape = "descending" THEN n + 1 - i ELSE i, shape)]

MaxSeries == 26

DataFiles == {DataFile(start, n, shape) :
                start \in {0, 113, 5000}, n \in 1..MaxSeries,
                shape \in {"ascending", "descending", "gaps"}}

InitTrain ==
    /\ InitServer
    /\ model_file = Missing
    /\ anomaly_model_file = Missing
    /\ data_csv \in DataFiles
    /\ training = Missing

NextTrain == \E m \in FittedModels : Train(m)

SpecTrain == InitTrain /\ [][NextTrain]_vars

\* ------------------------------------------------- a store past the limit
\* the table after one upload of LargeRows hourly readings, the first at
\* hour 0: ids follow the timestamps
LargeRows == 10001

LargeStore ==
    [i \in 1..LargeRows |->
        EnergyRecord([timestamp |-> Some(i - 1),
                      consumption_kwh |-> Some(100 + 20 * ((i * 7) % 5) + (i % 13))])]

InitLarge ==
    /\ energy_data = LargeStore
    /\ prediction_data = <<>>
    /\ anomaly_data = <<>>
    /\ rng \in 0..(Len(NoiseTape) - 1)
    /\ now = 0
    /\ svc = [w \in Workers |-> Idle]
    /\ uploads = 1
    /\ requests = 0
    /\ model_file \in ModelFiles
    /\ anomaly_model_file = Missing
    /\ data_csv = <<>>
    /\ training = Missing

NextLarge == ServePredict({1})

SpecLarge == InitLarge /\ [][NextLarge]_vars

\* ================================================================= claims
IsPrediction(r) == "horizon" \in DOMAIN r

\* worker w has returned the response of a predict call
ReturnedPrediction(w) ==
    /\ svc[w].pc = "returned"
    /\ svc[w].response # Missing
    /\ IsPrediction(svc[w].response[1])

\* worker w takes one step of the forecast loop
Stepped(w) == svc[w].pc = "loop" /\ svc'[w].i = svc[w].i + 1

\* worker w starts a predict call
BeganPredict(w) ==
    /\ svc[w].pc \in {"idle", "returned"}
    /\ requests' = requests + 1
    /\ svc'[w] # svc[w]

\* C1: on a non-empty stored history predict returns exactly 1 point for
\* next_hour, 24 for next_day and 42 for next_7_days.
C1_HorizonCardinality ==
    \A w \in Workers :
        (ReturnedPrediction(w) /\ energy_data # <<>>) =>
            LET r == svc[w].response[1]
            IN  /\ r.horizon = "next_hour" => Len(r.predictions) = 1
                /\ r.horizon = "next_day" => Len(r.predictions) = 24
                /\ r.horizon = "next_7_days" => Len(r.predictions) = 42

C1_Witness ==
    \E w \in Workers :
        /\ ReturnedPrediction(w)
        /\ energy_data # <<>>
        /\ svc[w].response[1].horizon = "next_7_days"
        /\ Len(svc[w].response[1].predictions) = 42

C3_BufferBound ==
    /\ [](\A w \in Workers :
            Len(svc[w].recent_values) <= 24 /\ Len(svc[w].lag_24_buffer) <= 24)
    /\ [][\A w \in Workers : Stepped(w) =>
            LET fifo(old, new) ==
                    IF Len(old) = 24
                    THEN new = Append(Tail(old), svc'[w].pred_val)
                    ELSE new = Append(old, svc'[w].pred_val)
            IN  /\ fifo(svc[w].recent_values, svc'[w].recent_values)
                /\ fifo(svc[w].lag_24_buffer, svc'[w].lag_24_buffer)]_vars

C3_Witness ==
    \E w \in Workers :
        /\ svc[w].i >= 2
        /\ Len(svc[w].values) >= 24
        /\ Len(svc[w].recent_values) = 24
        /\ Len(svc[w].lag_24_buffer) = 24

\* the timestamps of the stored readings
StoredTimestamps == {energy_data[k].timestamp : k \in 1..Len(energy_data)}

\* the latest timestamp of the stored readings
LastStoredTimestamp == CHOOSE t \in StoredTimestamps : \A u \in StoredTimestamps : u <= t

\* C4: with base the later of the last historical timestamp and the current
\* time, the generated timestamps are base+1h for next_hour, base+1h ..
\* base+24h for next_day and base+(1+4k)h, k = 0..41, for next_7_days, in
\* strictly increasing order.
C4_StepTimestamps ==
    \A w \in Workers :
        LET s == svc[w]
            ts(k) == s.predictions[k].timestamp
            n == Len(s.predictions)
        IN  (s.values # <<>> /\ s.horizon \in Horizons) =>
                /\ s.base_ts = IF LastStoredTimestamp >= now
                               THEN LastStoredTimestamp ELSE now
                /\ \A k \in 1..n :
                      ts(k) = IF s.horizon = "next_7_days"
                              THEN s.base_ts + 1 + 4 * (k - 1)
                              ELSE s.base_ts + k
                /\ \A k \in 1..(n - 1) : ts(k) < ts(k + 1)
                /\ s.pc = "returned" =>
                      n = CASE s.horizon = "next_hour" -> 1
                            [] s.horizon = "next_day" -> 24
                            [] s.horizon = "next_7_days" -> 42
                /\ s.pc = "returned" /\ s.horizon = "next_7_days" =>
                      ts(n) = s.base_ts + 165

C4_Witness ==
    \E w \in Workers :
        /\ svc[w].pc = "returned"
        /\ svc[w].horizon = "next_7_days"
        /\ svc[w].base_ts = LastStoredTimestamp
        /\ svc[w].base_ts > now
        /\ Len(svc[w].predictions) = 42
        /\ svc[w].predictions[42].timestamp = svc[w].base_ts + 165

\* the consumption of the min(24, n) stored readings that have the latest
\* timestamps, in timestamp order
LatestValues ==
    LET ordered == SortSeq(energy_data, LAMBDA a, b : a.timestamp < b.timestamp)
        tail == TailOf(ordered, 24)
    IN  [k \in 1..Len(tail) |-> tail[k].consumption_kwh]

\* C5: for any number of stored readings, predict seeds the rolling window
\* and the lag-24 buffer identically with the min(24, n) readings of latest
\* timestamp, in timestamp order, and the seed rolling mean is their mean.
C5_SeedFromLatest ==
    \A w \in Workers :
        (svc[w].pc = "loop" /\ svc[w].i = 0) =>
            \E latest \in {LatestValues} :
                /\ svc[w].recent_values = latest
                /\ svc[w].lag_24_buffer = latest
                /\ svc[w].rolling_mean * Len(latest) <= SumSeq(latest)
                /\ SumSeq(latest) < (svc[w].rolling_mean + 1) * Len(latest)

\* the seed rolling mean of a call: the mean of the historical tail
SeedMean(values) == Mean(TailOf(values, 24))

\* C6 as claimed: lag_24h is the oldest buffer value when the buffer is
\* full, else the seed rolling mean, at the first and at every later step.
C6_SeedMeanFallback ==
    [][\A w \in Workers : Stepped(w) =>
          svc'[w].lag_24h =
              IF Len(svc[w].lag_24_buffer) = 24 THEN svc[w].lag_24_buffer[1]
              ELSE SeedMean(svc[w].values)]_vars

\* C6 as amended: lag_24h is the oldest buffer value when the buffer is
\* full, else the mean of the rolling window as it stands at that step,
\* which is the seed rolling mean at the first step only.
C6_CurrentMeanFallback ==
    [][\A w \in Workers : Stepped(w) =>
          /\ svc'[w].lag_24h =
                IF Len(svc[w].lag_24_buffer) = 24 THEN svc[w].lag_24_buffer[1]
                ELSE FloorDiv(SumSeq(svc[w].recent_values), Len(svc[w].recent_values))
          /\ (svc[w].i = 0 /\ Len(svc[w].lag_24_buffer) < 24) =>
                svc'[w].lag_24h = SeedMean(svc[w].values)]_vars

C6_Witness ==
    \E w \in Workers :
        /\ svc[w].i >= 2
        /\ Len(svc[w].values) < 24
        /\ Len(svc[w].lag_24_buffer) < 24
        /\ svc[w].lag_24h # SeedMean(svc[w].values)

\* C7: lag_1h is the last historical value at step 1 and the unrounded
\* prediction of the step before at every later step; each prediction is
\* appended to both buffers and the rolling mean recomputed over the updated
\* window before the next step, and the two buffers always hold the same.
C7_Lag1hFeedback ==
    /\ [](\A w \in Workers : svc[w].recent_values = svc[w].lag_24_buffer)
    /\ [][\A w \in Workers : Stepped(w) =>
            /\ svc'[w].lag_1h = IF svc[w].i = 0 THEN Last(svc[w].values)
                                ELSE svc[w].pred_val
            /\ Last(svc'[w].recent_values) = svc'[w].pred_val
            /\ Last(svc'[w].lag_24_buffer) = svc'[w].pred_val
            /\ svc'[w].rolling_mean * Len(svc'[w].recent_values)
                  <= SumSeq(svc'[w].recent_values)
            /\ SumSeq(svc'[w].recent_values)
                  < (svc'[w].rolling_mean + 1) * Len(svc'[w].recent_values)]_vars

C7_Witness ==
    \E w \in Workers :
        /\ svc[w].i >= 2
        /\ svc[w].lag_1h # svc[w].predictions[svc[w].i - 1].predicted_value
        /\ svc[w].lag_1h > 0

\* C8: when the energy store is empty a predict call returns at once, for
\* every horizon, a response with an empty prediction list and no model
\* accuracy, and neither deletes nor writes a record of the prediction store.
C8_EmptyHistory ==
    /\ [](\A w \in Workers :
            (ReturnedPrediction(w) /\ energy_data = <<>>) =>
                /\ svc[w].response[1].predictions = <<>>
                /\ svc[w].response[1].model_accuracy = Missing
                /\ svc[w].response[1].horizon \in RequestHorizons
                /\ prediction_data = <<>>)
    /\ [][\A w \in Workers :
            (BeganPredict(w) /\ energy_data = <<>>) =>
                /\ svc'[w].pc = "returned"
                /\ svc'[w].response # Missing
                /\ IsPrediction(svc'[w].response[1])
                /\ svc'[w].response[1].predictions = <<>>
                /\ svc'[w].response[1].model_accuracy = Missing
                /\ prediction_data' = prediction_data
                /\ energy_data' = energy_data]_vars

C8_Witness ==
    \E w \in Workers :
        /\ ReturnedPrediction(w)
        /\ energy_data = <<>>
        /\ uploads > 0
        /\ model_file # Missing
        /\ model_file[1].has_score
        /\ svc[w].response[1].horizon = "next_month"
        /\ svc[w].response[1].predictions = <<>>

\* C9 as claimed: the model accuracy of a response is the quality metric the
\* loaded model reports of itself, when a model is loaded and exposes one on
\* a non-empty history, and is absent otherwise; it is never a value that
\* was not obtained from the model.
C9_AccuracyFromModel ==
    \A w \in Workers :
        ReturnedPrediction(w) =>
            LET r == svc[w].response[1]
            IN  /\ r.model_accuracy \in
                      {Missing} \cup {Some(m.r2) : m \in {x \in Predictors : model_file = Some(x)}}
                /\ (model_file = Missing \/ ~model_file[1].has_score) =>
                      r.model_accuracy = Missing
                /\ (model_file # Missing /\ model_file[1].has_score
                        /\ r.predictions # <<>>) =>
                      r.model_accuracy = Some(model_file[1].r2)

\* C10: the vector built at inference time, by the service and by the
\* command-line loop, has the 8 fields of a training row in the same order:
\* hour, day, month, is_weekend, rolling_mean_24, rolling_std_24, lag_1h,
\* lag_24h; for the timestamp and the rolling and lag scalars of a training
\* row both equal that row, and is_weekend is 1 exactly on days 5 and 6.
C10_FeatureOrder ==
    training # Missing =>
        LET X == training[1].X
            ts == training[1].timestamp
        IN  \A i \in 1..Len(X) :
                /\ Len(X[i]) = 8
                /\ X[i][1] = HourOf(ts[i])
                /\ X[i][2] = WeekdayOf(ts[i])
                /\ X[i][3] = MonthOf(ts[i])
                /\ X[i][4] \in {0, 1}
                /\ X[i][4] = 1 <=> X[i][2] \in {5, 6}
                /\ _build_features(ts[i], X[i][5], X[i][6], X[i][7], X[i][8]) = X[i]
                /\ cli_features(ts[i], X[i][5], X[i][6], X[i][7], X[i][8]) = X[i]
                /\ _build_features(ts[i], X[i][5], X[i][6], X[i][7], X[i][8])[4] = 1
                      <=> WeekdayOf(ts[i]) \in {5, 6}

C10_Witness ==
    /\ training # Missing
    /\ Len(training[1].X) >= 25
    /\ \E i, j \in 1..Len(training[1].X) :
          /\ training[1].X[i][4] = 1
          /\ training[1].X[j][4] = 0
          /\ training[1].X[i][5] # training[1].X[i][7]
          /\ training[1].X[i][7] # training[1].X[i][8]
          /\ training[1].X[i][6] > 0

\* the sum of the readings of y at positions lo..hi
SumOver(y, lo, hi) == SumSeq(SubSeq(y, lo, hi))

\* C11: for the reading at position i of the timestamp-sorted series,
\* rolling_mean_24 and rolling_std_24 are taken over exactly the readings at
\* the (at most 24) positions ending at i, the current reading included, and
\* rolling_std_24 is 0 when that window holds one reading.
C11_RollingWindow ==
    training # Missing =>
        LET X == training[1].X
            y == training[1].y
        IN  \A i \in 1..Len(X) :
                LET lo == IF i > 24 THEN i - 23 ELSE 1
                    n == i - lo + 1
                IN  /\ n <= 24
                    /\ X[i][5] * n <= SumOver(y, lo, i)
                    /\ SumOver(y, lo, i) < (X[i][5] + 1) * n
                    /\ X[i][6] = SampleStd(SubSeq(y, lo, i))
                    /\ n = 1 => X[i][6] = 0

C11_Witness ==
    /\ training # Missing
    /\ Len(training[1].X) >= 26
    /\ training[1].X[1][6] = 0
    /\ training[1].X[2][6] > 0
    /\ training[1].X[26][5] # Mean(training[1].y)
    /\ training[1].X[26][5] # Mean(SubSeq(training[1].y, 2, 26))
    /\ training[1].X[26][5] # Mean(SubSeq(training[1].y, 2, 25))

\* C12: for the reading at position i of the timestamp-sorted series, lag_1h
\* is the consumption one position earlier and lag_24h the consumption 24
\* positions earlier, the mean of the whole series standing in where that
\* position does not exist; y[i] is the reading's own consumption and there
\* is one feature row per reading.
C12_LagFeatures ==
    training # Missing =>
        LET X == training[1].X
            y == training[1].y
            ts == training[1].timestamp
            kept == {k \in 1..Len(data_csv) :
                        /\ data_csv[k].consumption_kwh # Missing
                        /\ data_csv[k].consumption_kwh[1] >= 0}
        IN  /\ Len(X) = Cardinality(kept)
            /\ Len(y) = Len(X)
            /\ Len(ts) = Len(X)
            /\ \A i \in 1..Len(X) :
                  /\ i > 1 => ts[i - 1] < ts[i]
                  /\ \E k \in kept :
                        /\ data_csv[k].timestamp = ts[i]
                        /\ data_csv[k].consumption_kwh = Some(y[i])
                  /\ X[i][7] = IF i >= 2 THEN y[i - 1] ELSE Mean(y)
                  /\ X[i][8] = IF i >= 25 THEN y[i - 24] ELSE Mean(y)

C12_Witness ==
    /\ training # Missing
    /\ Len(training[1].X) >= 25
    /\ training[1].X[1][7] = Mean(training[1].y)
    /\ training[1].X[1][7] # training[1].y[1]
    /\ training[1].X[24][8] = Mean(training[1].y)
    /\ training[1].X[25][8] = training[1].y[1]
    /\ training[1].X[25][8] # Mean(training[1].y)
    /\ data_csv[1].timestamp > data_csv[2].timestamp

\* worker w has returned the response of a detect_and_store call
DetectReturned(w) ==
    svc[w].pc = "returned" /\ svc[w].handler = "detect_and_store"

\* the consumption of the readings of the last detection run
RunValues == [i \in 1..Len(anomaly_data) |-> anomaly_data[i].consumption]

AnomaliesReturned(w) ==
    /\ svc[w].pc = "returned"
    /\ svc[w].handler \in {"detect_and_store", "get_stored_anomalies"}

\* C14: in every result of detect_and_store and of get_stored_anomalies,
\* 0 <= total_anomalies <= total_records and anomaly_rate is total_anomalies
\* / total_records x 100 rounded to 2 decimals, hence between 0 and 100; with
\* no readings, or no stored anomaly records, the counts and the rate are 0
\* and the anomalies list is empty.
C14_RateBounds ==
    \A w \in Workers :
        AnomaliesReturned(w) =>
            LET r == svc[w].response[1]
            IN  /\ 0 <= r.total_anomalies
                /\ r.total_anomalies <= r.total_records
                /\ 0 <= r.anomaly_rate
                /\ r.anomaly_rate <= 100 * 100
                /\ r.total_records > 0 =>
                      2 * Abs(r.anomaly_rate * r.total_records
                              - r.total_anomalies * 100 * 100) <= r.total_records
                /\ r.total_records = 0 =>
                      /\ r.total_anomalies = 0
                      /\ r.anomaly_rate = 0
                      /\ r.anomalies = <<>>
                /\ (svc[w].handler = "detect_and_store" /\ energy_data = <<>>) =>
                      r.total_records = 0
                /\ (svc[w].handler = "get_stored_anomalies" /\ anomaly_data = <<>>) =>
                      r.total_records = 0

C14_Witness ==
    \E w \in Workers :
        /\ AnomaliesReturned(w)
        /\ svc[w].handler = "get_stored_anomalies"
        /\ svc[w].response[1].total_anomalies > 0
        /\ svc[w].response[1].total_anomalies < svc[w].response[1].total_records
        /\ svc[w].response[1].anomaly_rate % 100 # 0
        /\ svc[w].response[1].anomalies # <<>>

\* C15 as claimed: with no model, a run over readings that all have the same
\* consumption reports no anomaly and an anomaly score of 0 for every
\* reading.
C15_ConstantSeries ==
    \A w \in Workers :
        (/\ anomaly_model_file = Missing
         /\ DetectReturned(w)
         /\ anomaly_data # <<>>
         /\ AllEqual(RunValues)) =>
            /\ svc[w].response[1].total_anomalies = 0
            /\ \A i \in 1..Len(anomaly_data) :
                  /\ ~anomaly_data[i].is_anomaly
                  /\ anomaly_data[i].anomaly_score = 0

\* C16: with no model, a run over 100 readings of which one is 50.0 kWh and
\* the other 99 are 2.0 kWh flags that one reading and no other.
C16_SingleSpike ==
    \A w \in Workers :
        (/\ anomaly_model_file = Missing
         /\ DetectReturned(w)
         /\ Len(anomaly_data) = 100
         /\ Cardinality({i \in 1..100 : anomaly_data[i].consumption = 50 * KWh}) = 1
         /\ Cardinality({i \in 1..100 : anomaly_data[i].consumption = 2 * KWh}) = 99) =>
            /\ svc[w].response[1].total_records = 100
            /\ svc[w].response[1].total_anomalies = 1
            /\ Len(svc[w].response[1].anomalies) = 1
            /\ svc[w].response[1].anomalies[1].consumption = 50 * KWh
            /\ \A i \in 1..100 :
                  anomaly_data[i].is_anomaly <=>
                      anomaly_data[i].consumption = 50 * KWh

C16_Witness ==
    \E w \in Workers :
        /\ anomaly_model_file = Missing
        /\ DetectReturned(w)
        /\ Len(anomaly_data) = 100
        /\ Cardinality({i \in 1..100 : anomaly_data[i].consumption = 50 * KWh}) = 1
        /\ Cardinality({i \in 1..100 : anomaly_data[i].consumption = 2 * KWh}) = 99
        /\ svc[w].response[1].total_anomalies = 1
        /\ svc[w].response[1].anomaly_rate = 100

\* worker w has returned the response of a get_analysis call
AnalysisReturned(w) ==
    svc[w].pc = "returned" /\ svc[w].handler = "get_analysis"

\* C17: on an empty energy store get_analysis returns, at every call, usage
\* figures that are all 0, empty peak and low-usage hours, the no-data trend
\* label and one recommendation, the prompt to upload data.
C17_EmptyAnalysis ==
    \A w \in Workers :
        (AnalysisReturned(w) /\ energy_data = <<>>) =>
            LET r == svc[w].response[1]
            IN  /\ r.daily_usage = 0
                /\ r.weekly_usage = 0
                /\ r.monthly_usage = 0
                /\ r.yearly_usage = 0
                /\ r.peak_hours = <<>>
                /\ r.low_usage_hours = <<>>
                /\ r.trend = "No data"
                /\ Len(r.recommendations) = 1
                /\ r.recommendations[1].kind = "upload"

C17_Witness ==
    \E w \in Workers :
        /\ AnalysisReturned(w)
        /\ energy_data = <<>>
        /\ uploads > 0
        /\ svc[w].response[1].trend = "No data"

\* the sum of the consumption of all stored readings
TotalConsumption ==
    SumSeq([i \in 1..Len(energy_data) |-> energy_data[i].consumption_kwh])

\* the calendar days on which a stored reading falls
StoredDates == {DateOf(energy_data[i].timestamp) : i \in 1..Len(energy_data)}

\* figure is ratio / days, a number of ticks, rounded to hundredths of a kWh
RoundedTo(figure, ratio, days) ==
    2 * Abs(figure * Centi * days - ratio) <= Centi * days

\* C18: for a non-empty store daily_usage is the sum of all consumption
\* divided by the number of distinct calendar days present, and weekly,
\* monthly and yearly usage are that unrounded value times 7, 30 and 365;
\* each figure is rounded to 2 decimals on output only.
C18_UsageFigures ==
    \A w \in Workers :
        (AnalysisReturned(w) /\ energy_data # <<>>) =>
            \E total \in {TotalConsumption}, days \in {Cardinality(StoredDates)} :
                LET r == svc[w].response[1]
                IN  /\ days >= 1
                    /\ RoundedTo(r.daily_usage, total, days)
                    /\ RoundedTo(r.weekly_usage, 7 * total, days)
                    /\ RoundedTo(r.monthly_usage, 30 * total, days)
                    /\ RoundedTo(r.yearly_usage, 365 * total, days)

C18_Witness ==
    \E w \in Workers :
        /\ AnalysisReturned(w)
        /\ Cardinality(StoredDates) >= 2
        /\ svc[w].response[1].daily_usage > 0
        /\ svc[w].response[1].weekly_usage # 7 * svc[w].response[1].daily_usage
        /\ svc[w].response[1].yearly_usage # 365 * svc[w].response[1].daily_usage

\* the hours of day at which a stored reading falls
StoredHours == {energy_data[i].hour : i \in 1..Len(energy_data)}

\* the mean consumption of the stored readings of each hour of day present
StoredHourlyMean ==
    [h \in StoredHours |->
        MeanOf(SelectSeq(energy_data, LAMBDA r : r.hour = h))]

\* listed holds min(3, number of hours) distinct hours present, each ranked
\* before the next and before every hour left out; a is ranked before b when
\* its mean is better (higher if descending, else lower), or equal with a the
\* earlier hour
RankedHours(listed, mean, descending) ==
    LET Better(x, y) == IF descending THEN MeanLess(y, x) ELSE MeanLess(x, y)
        Before(a, b) ==
            \/ Better(mean[a], mean[b])
            \/ ~Better(mean[b], mean[a]) /\ a < b
        in_list == {listed[k] : k \in 1..Len(listed)}
    IN  /\ Len(listed) = Min2(3, Cardinality(DOMAIN mean))
        /\ in_list \subseteq DOMAIN mean
        /\ Cardinality(in_list) = Len(listed)
        /\ \A k \in 1..(Len(listed) - 1) : Before(listed[k], listed[k + 1])
        /\ \A a \in in_list, b \in (DOMAIN mean) \ in_list : Before(a, b)

\* C19: for a non-empty store with h hours of day present, peak_hours lists
\* min(3, h) distinct hours in descending order of mean consumption, no hour
\* left out having a higher mean than a listed one, and low_usage_hours lists
\* min(3, h) hours in ascending order of the mean, no hour left out having a
\* lower mean; among hours of equal mean the earlier hour comes first.
C19_PeakAndLowHours ==
    \A w \in Workers :
        (AnalysisReturned(w) /\ energy_data # <<>>) =>
            \E mean \in {StoredHourlyMean} :
                /\ RankedHours(svc[w].response[1].peak_hours, mean, TRUE)
                /\ RankedHours(svc[w].response[1].low_usage_hours, mean, FALSE)

C19_Witness ==
    \E w \in Workers :
        /\ AnalysisReturned(w)
        /\ energy_data # <<>>
        /\ Cardinality(StoredHours) >= 4
        /\ Len(svc[w].response[1].peak_hours) = 3
        /\ \E mean \in {StoredHourlyMean} :
              \E b \in StoredHours :
                  /\ \A k \in 1..3 : svc[w].response[1].peak_hours[k] # b
                  /\ ~MeanLess(mean[b], mean[svc[w].response[1].peak_hours[3]])
                  /\ ~MeanLess(mean[svc[w].response[1].peak_hours[1]],
                               mean[svc[w].response[1].peak_hours[2]])

\* the trend label of a first half of sum first over half days and a second
\* half of sum second over rest days
TrendLabel(first, half, second, rest) ==
    IF 100 * second * half > 105 * first * rest THEN "Increasing"
    ELSE IF 100 * second * half < 95 * first * rest THEN "Decreasing"
    ELSE "Stable"

\* C20: the trend is taken from the consumption sums of the calendar days in
\* ascending order of date: the insufficient-data label with fewer than 3
\* days; with n >= 3 days, the first floor(n/2) days against the remaining
\* days: increasing when the mean of the second half exceeds 1.05 x the mean
\* of the first, decreasing when it is below 0.95 x that mean, else stable.
C20_Trend ==
    \A w \in Workers :
        (AnalysisReturned(w) /\ energy_data # <<>>) =>
            \E dates \in {StoredDates} :
                LET n == Cardinality(dates)
                    half == n \div 2
                    early == {d \in dates :
                                 Cardinality({e \in dates : e <= d}) <= half}
                    first == SumSeq([i \in 1..Len(energy_data) |->
                                IF DateOf(energy_data[i].timestamp) \in early
                                THEN energy_data[i].consumption_kwh ELSE 0])
                    second == TotalConsumption - first
                IN  svc[w].response[1].trend =
                        IF n < 3 THEN "Insufficient data"
                        ELSE TrendLabel(first, half, second, n - half)

C20_Witness ==
    \E w \in Workers :
        /\ AnalysisReturned(w)
        /\ Cardinality(StoredDates) = 3
        /\ svc[w].response[1].trend = "Increasing"

\* the mean consumption, as <<sum, count>>, of the stored readings that fall
\* on a weekend (Saturday, Sunday) or not; <<0, 1>>, the mean 0, of none
StoredMeanOn(weekend) ==
    LET on == {i \in 1..Len(energy_data) :
                  (WeekdayOf(energy_data[i].timestamp) \in {5, 6}) = weekend}
    IN  <<SumSeq([i \in 1..Len(energy_data) |->
                    IF i \in on THEN energy_data[i].consumption_kwh ELSE 0]),
          Max2(1, Cardinality(on))>>

\* a count that every count of the hourly means divides
StoredCommonCount ==
    CHOOSE l \in 1..(24 * Max2(1, Len(energy_data))) :
        /\ \A h \in StoredHours : l % StoredHourlyMean[h][2] = 0
        /\ \A k \in 1..(l - 1) :
              \E h \in StoredHours : k % StoredHourlyMean[h][2] # 0

\* the highest hourly mean exceeds twice the mean of the hourly means
StoredUneven ==
    \E l \in {StoredCommonCount}, mean \in {StoredHourlyMean} :
        LET scaled(h) == mean[h][1] * (l \div mean[h][2])
            hours == SortSeq([k \in 1..24 |-> k - 1], LAMBDA a, b : a < b)
            total == SumSeq([k \in 1..24 |->
                        IF hours[k] \in StoredHours THEN scaled(hours[k]) ELSE 0])
        IN  \E h \in StoredHours :
                scaled(h) * Cardinality(StoredHours) > 2 * total

\* the months in which a stored reading falls
StoredMonths == {energy_data[i].month : i \in 1..Len(energy_data)}

\* C21: for a non-empty store the recommendations are, in this order: the
\* peak-hours entry, the weekend entry exactly when the mean weekend
\* consumption exceeds 1.1 x the mean weekday consumption (a mean over no
\* readings counting as 0), the unevenness entry exactly when the highest
\* hourly mean exceeds twice the mean of the hourly means, the entry of the
\* month of highest mean consumption, and the two constant tips last; there
\* is no other entry.
C21_Recommendations ==
    \A w \in Workers :
        (AnalysisReturned(w) /\ energy_data # <<>>) =>
            \E weekend \in {StoredMeanOn(TRUE)}, weekday \in {StoredMeanOn(FALSE)} :
                LET r == svc[w].response[1]
                    recs == r.recommendations
                    kinds == [k \in 1..Len(recs) |-> recs[k].kind]
                    higher == 10 * weekend[1] * weekday[2] > 11 * weekday[1] * weekend[2]
                    month == recs[Len(recs) - 2].arg[1]
                    month_mean(m) ==
                        MeanOf(SelectSeq(energy_data, LAMBDA x : x.month = m))
                IN  /\ r.peak_hours # <<>>
                    /\ kinds = <<"peak_hours">>
                               \o (IF higher THEN <<"weekend">> ELSE <<>>)
                               \o (IF StoredUneven THEN <<"uneven">> ELSE <<>>)
                               \o <<"peak_month", "led", "smart_meter">>
                    /\ recs[1].arg = r.peak_hours
                    /\ month \in StoredMonths
                    /\ \A m \in StoredMonths :
                          ~MeanLess(month_mean(month), month_mean(m))

C21_Witness ==
    \E w \in Workers :
        /\ AnalysisReturned(w)
        /\ energy_data # <<>>
        /\ Len(svc[w].response[1].recommendations) = 6
        /\ svc[w].response[1].recommendations[2].kind = "weekend"
        /\ svc[w].response[1].recommendations[3].kind = "uneven"
        /\ Cardinality(StoredMonths) = 2

\* C22 as claimed: after any sequence of uploads, the sequence of readings
\* that predict, detect_and_store and get_analysis read from the energy store
\* is in ascending order of timestamp, holds no two readings of the same
\* timestamp and holds no reading of negative consumption.
C22_CleanSeries ==
    \E all_data \in {get_all(10000)} :
        /\ \A i \in 1..(Len(all_data) - 1) :
              all_data[i].timestamp <= all_data[i + 1].timestamp
        /\ \A i, j \in 1..Len(all_data) :
              i # j => all_data[i].timestamp # all_data[j].timestamp
        /\ \A i \in 1..Len(all_data) : all_data[i].consumption_kwh >= 0

\* the points of a predict call run alone from step k on: window holds the
\* rolling window, which is also the lag-24 buffer, noises the samples the
\* call draws, one per step
RECURSIVE AloneFrom(_, _, _, _, _, _)
AloneFrom(model, steps, noises, k, window, points) ==
    IF k > Len(steps) THEN points
    ELSE LET ts == steps[k]
             rolling_mean == Mean(window)
             rolling_std == StdOrOne(window)
             lag_1h == window[Len(window)]
             lag_24h == IF Len(window) >= 24 THEN window[1] ELSE rolling_mean
             raw == IF model # Missing
                    THEN ModelPredict(model[1],
                             <<HourOf(ts), WeekdayOf(ts), MonthOf(ts),
                               IF WeekdayOf(ts) >= 5 THEN 1 ELSE 0,
                               rolling_mean, rolling_std, lag_1h, lag_24h>>)
                    ELSE FloorDiv(FloorDiv(rolling_mean * hour_factor(ts), 1000)
                                      * weekend_factor(ts), 100) + noises[k]
             pred_val == IF raw < 0 THEN 0 ELSE raw
         IN  AloneFrom(model, steps, noises, k + 1,
                       TailOf(Append(window, pred_val), 24),
                       Append(points, [timestamp |-> ts,
                                       predicted_value |-> Round3(pred_val)]))

\* the points a predict call returns when no other call runs: the history
\* values, the base timestamp, the model and the noise samples decide them
RunAlone(horizon, model, values, base_ts, noises) ==
    AloneFrom(model, Steps(horizon, base_ts), noises, 1, TailOf(values, 24), <<>>)

\* worker w has finished the loop of a predict call on a non-empty history
LoopDone(w) ==
    /\ svc[w].handler = "predict"
    /\ svc[w].pc \in {"delete", "create", "returned"}
    /\ svc[w].values # <<>>

\* C23: predict calls that run at the same time over the same readings do
\* not share rolling state: the points each call has produced when its loop
\* ends are those of the call run alone with the same model and the same
\* noise samples, however the steps of the calls interleave; no step of any
\* call changes them afterwards, and they are the points the call returns.
C23_OwnRollingState ==
    /\ [](\A w \in Workers :
            /\ (LoopDone(w) /\ svc[w].pc = "delete") =>
                  svc[w].predictions =
                      RunAlone(svc[w].horizon, svc[w].model, svc[w].values,
                               svc[w].base_ts, svc[w].noises)
            /\ (LoopDone(w) /\ svc[w].pc = "returned") =>
                  svc[w].response[1].predictions = svc[w].predictions)
    /\ [][\A w \in Workers :
            svc[w].pc \in {"delete", "create"} =>
                svc'[w].predictions = svc[w].predictions]_vars

C23_Witness ==
    /\ \A w \in Workers : ReturnedPrediction(w) /\ LoopDone(w)
    /\ svc[1].horizon = "next_day"
    /\ svc[2].horizon = "next_day"
    /\ Len(svc[1].values) >= 24
    /\ svc[1].predictions[24] # svc[1].predictions[23]
    /\ Len(prediction_data) = 48

\* C24 as claimed: when a predict call enters its loop and after every step,
\* rolling_std is the standard deviation of the values in the rolling window,
\* and so is 0 when all values of the window are equal, a window of one value
\* included.
C24_RollingStd ==
    \A w \in Workers :
        (svc[w].handler = "predict" /\ svc[w].values # <<>>
             /\ svc[w].pc \in {"loop", "delete"}) =>
            /\ svc[w].rolling_std = PopStd(svc[w].recent_values)
            /\ AllEqual(svc[w].recent_values) => svc[w].rolling_std = 0

\* the records the prediction store holds for the points of a response
StoredPoints(response) ==
    [k \in 1..Len(response.predictions) |->
        [timestamp |-> response.predictions[k].timestamp,
         predicted_value |-> response.predictions[k].predicted_value,
         prediction_horizon |->
            CASE response.horizon = "next_hour" -> 1
              [] response.horizon = "next_day" -> 24
              [] OTHER -> 168]]

\* C25: after completed predict calls that do not overlap, the prediction
\* store holds exactly the points the most recent call on a non-empty history
\* returned: it holds them when that call returns, and nothing but the
\* delete and the insert of a later call on a non-empty history changes the
\* store; every stored record carries the same prediction_horizon, 1 for
\* next_hour, 24 for next_day, 168 for next_7_days.
C25_LastCallStored ==
    /\ [](/\ (ReturnedPrediction(1) /\ svc[1].values # <<>>) =>
                prediction_data = StoredPoints(svc[1].response[1])
          /\ \A k \in 1..Len(prediction_data) :
                /\ prediction_data[k].prediction_horizon \in {1, 24, 168}
                /\ prediction_data[k].prediction_horizon =
                      prediction_data[1].prediction_horizon)
    /\ [][prediction_data' # prediction_data =>
            /\ svc[1].pc \in {"delete", "create"}
            /\ svc[1].values # <<>>]_vars

C25_Witness ==
    /\ requests = 2
    /\ ReturnedPrediction(1)
    /\ svc[1].values # <<>>
    /\ svc[1].horizon = "next_day"
    /\ now = 5000
    /\ svc[1].base_ts = 5000
    /\ Len(prediction_data) = 24
    /\ prediction_data[24].prediction_horizon = 24
    /\ prediction_data[24].timestamp = 5024

\* the timestamp, consumption and score of the records of a list
Essentials(records) ==
    [k \in 1..Len(records) |->
        <<records[k].timestamp, records[k].consumption, records[k].anomaly_score>>]

\* C26 as claimed: when two predict calls on a non-empty history have run at
\* the same time and both have finished, the prediction store holds the
\* points of exactly one of the two calls.
C26_OneCallStored ==
    (\A w \in Workers : ReturnedPrediction(w) /\ svc[w].values # <<>>) =>
        \E w \in Workers : prediction_data = StoredPoints(svc[w].response[1])

\* C27 as claimed: a get_stored_anomalies that follows a detect_and_store,
\* with no operation in between, returns the total_records, total_anomalies
\* and anomaly_rate that detect_and_store returned, and a list of the same
\* records (timestamp, consumption, score), as long as total_anomalies.
C27_StoredEqualsDetected ==
    [][(/\ DetectReturned(1)
        /\ svc'[2] # svc[2]
        /\ svc'[2].handler = "get_stored_anomalies") =>
            LET detected == svc[1].response[1]
                stored == svc'[2].response[1]
            IN  /\ stored.total_records = detected.total_records
                /\ stored.total_anomalies = detected.total_anomalies
                /\ stored.anomaly_rate = detected.anomaly_rate
                /\ Essentials(stored.anomalies) = Essentials(detected.anomalies)
                /\ Len(stored.anomalies) = stored.total_anomalies]_vars

\* the status an upload of file is answered with
UploadStatus(file) ==
    IF file.filename[Len(file.filename)] # ".csv" THEN 400
    ELSE IF \/ ~file.parses
            \/ {file.columns[c] : c \in 1..Len(file.columns)}
                   \cap {"timestamp", "datetime", "date", "time"} = {}
            \/ {file.columns[c] : c \in 1..Len(file.columns)}
                   \cap {"consumption_kwh", "consumption", "kwh", "energy",
                          "usage"} = {}
         THEN 422
    ELSE 200

\* worker w serves an upload-csv request
Uploaded(w) ==
    /\ uploads' = uploads + 1
    /\ svc'[w].handler = "upload_csv"
    /\ svc'[w].pc = "returned"

\* C28: an upload that is rejected, with status 400 because the file name
\* does not end in .csv or with status 422 because the content does not
\* parse or lacks a timestamp or a consumption column, leaves the energy
\* store as it was; an upload that succeeds appends records_saved readings
\* to the store and changes none of the readings stored before.
C28_UploadAllOrNothing ==
    [][\A w \in Workers : Uploaded(w) =>
          \E file \in AnalysisFiles :
              LET r == svc'[w].response[1]
              IN  /\ r.status = UploadStatus(file)
                  /\ r.status \in {400, 422} =>
                        /\ energy_data' = energy_data
                        /\ r.records_saved = 0
                  /\ r.status = 200 =>
                        /\ r.records_saved <= Len(file.rows)
                        /\ Len(energy_data') = Len(energy_data) + r.records_saved
                        /\ SubSeq(energy_data', 1, Len(energy_data)) = energy_data]_vars

C28_Witness ==
    /\ uploads = 2
    /\ svc[1].handler = "upload_csv"
    /\ svc[1].response[1].status = 422
    /\ Len(energy_data) = 2

\* C29: predict treats every horizon string other than next_hour and
\* next_day, a string outside the three documented values included, as
\* next_7_days: on a non-empty history it returns 42 points 4 hours apart
\* and stores them with prediction_horizon 168.
C29_OtherHorizons ==
    \A w \in Workers :
        (/\ ReturnedPrediction(w)
         /\ svc[w].values # <<>>
         /\ svc[w].response[1].horizon \notin {"next_hour", "next_day"}) =>
            LET r == svc[w].response[1]
            IN  /\ Len(r.predictions) = 42
                /\ r.predictions[1].timestamp = svc[w].base_ts + 1
                /\ \A k \in 1..41 :
                      r.predictions[k + 1].timestamp = r.predictions[k].timestamp + 4
                /\ Len(prediction_data) = 42
                /\ \A k \in 1..42 :
                      /\ prediction_data[k].prediction_horizon = 168
                      /\ prediction_data[k].timestamp = r.predictions[k].timestamp
                      /\ prediction_data[k].predicted_value =
                            r.predictions[k].predicted_value

C29_Witness ==
    \E w \in Workers :
        /\ ReturnedPrediction(w)
        /\ svc[w].values # <<>>
        /\ svc[w].response[1].horizon = "next_month"
        /\ Len(svc[w].response[1].predictions) = 42
        /\ Len(prediction_data) = 42
        /\ prediction_data[42].prediction_horizon = 168

\* C30 as claimed: on the no-model path a run over 10 readings or fewer flags
\* no reading, whatever the consumption values are.
C30_SmallRunUnflagged ==
    \A w \in Workers :
        (/\ anomaly_model_file = Missing
         /\ DetectReturned(w)
         /\ anomaly_data # <<>>
         /\ Len(anomaly_data) <= 10) =>
            /\ svc[w].response[1].total_anomalies = 0
            /\ \A i \in 1..Len(anomaly_data) : ~anomaly_data[i].is_anomaly

====
